---- MODULE Spec2Model ----
(***************************************************************************)
(* Model of httpskeleton's main.go: the middleware chain                   *)
(* mwPanic(mwLog(router)), the pooled logWriter response recorder, the     *)
(* per-request log map and the lazy, flag-guarded initialisation of the    *)
(* sync.Pool `writers`.                                                    *)
(*                                                                         *)
(* Every request is one goroutine.  A goroutine's position in the code is  *)
(* pc[i]; the steps that touch state shared between goroutines (ranOnce,   *)
(* writers.New, the pool) are separate actions, so that every interleaving *)
(* of concurrent requests is explored.                                     *)
(***************************************************************************)
EXTENDS Integers, Sequences, FiniteSets, TLC

\* Number of requests the server receives (each is served by its own goroutine).
NumReqs == 3

\* Largest number of requests the server is serving at the same time.
MaxInFlight == 2

\* Largest number of calls (WriteHeader, Write, logDataAdd, logDataReplace)
\* the wrapped handlers of a run make, all requests together.
MaxOps == 2

\* Largest number of wrapped handlers that panic in a run.
MaxPanics == 1

Reqs == 1..NumReqs

\* http.StatusOK, the default mwLog resets the recorder to (main.go:133).
StatusOK == 200

\* Status codes a wrapped handler passes to WriteHeader.
Codes == {404, 500}

\* Keys a wrapped handler adds to the request's log data.
HandlerKeys == {"user"}

\* The nil *logWriter / the nil http.ResponseWriter.
NoInst == 0

\* ctx.Value("log") when the context holds no map: the nil interface.
NoMap == <<0, 0>>

\* The seven fields mwLog seeds at main.go:113-119.
SeedKeys ==
    {"request_time", "request_id", "event", "remote_addr", "method", "url",
     "content_length"}

\* The two fields mwLog adds after the handler returned, main.go:139-140.
OutcomeKeys == {"code", "tts_ns"}

\* Values a handler passes to panic(): the nil interface or an error value.
PanicVals == {"nil", "err"}

VARIABLES
    ranOnce,      \* main.go:107, the package-level flag
    writersNew,   \* writers.New is set (main.go:127); FALSE is the nil func
    pool,         \* the instances sync.Pool `writers` holds
    insts,        \* the logWriter objects: instance id -> [code, headerWritten, rw]
    allocated,    \* the instance ids that writers.New has constructed
    pc,           \* each request's position
    lw,           \* mwLog's local lw, per request
    deferred,     \* each goroutine's stack of deferred calls
    panicking,    \* the value of the panic in flight, "none" when there is none
    heap,         \* the map[string]interface{} objects: map id -> contents
    nAlloc,       \* how many maps each request has allocated
    logData,      \* mwLog's local logData, per request (a map id)
    reqCtx,       \* the value under "log" of the context of the request the server passed in
    logged,       \* the lines each request's goroutine printed with log.Println
    calls,        \* history: the calls the wrapped handler made so far
    puts,         \* history: how often the request called writers.Put
    usedAfterPut, \* history: the request touched its recorder after writers.Put
    initCount,    \* history: how often the body of `if !ranOnce` completed
    sinks,        \* the ResponseWriter net/http made for each request
    unit,         \* one recorder on its sink, called in any order (SpecRec)
    lcall,        \* one call of logAsString on any map (SpecLog)
    auth          \* one request passing through mwAuth (SpecAuth)

vars ==
    <<ranOnce, writersNew, pool, insts, allocated, pc, lw, deferred, panicking,
      heap, nAlloc, logData, reqCtx, logged, calls, puts, usedAfterPut,
      initCount, sinks, unit, lcall, auth>>

\* The state of the three specifications that exercise one piece of the
\* program on its own; the server's actions leave it alone.
unitVars == <<unit, lcall, auth>>

\* The state of the server.
serverVars ==
    <<ranOnce, writersNew, pool, insts, allocated, pc, lw, deferred, panicking,
      heap, nAlloc, logData, reqCtx, logged, calls, puts, usedAfterPut,
      initCount, sinks>>

----------------------------------------------------------------------------
\* The recorder, main.go:180-202.

\* &logWriter{}: the zero value writers.New constructs.
NewLogWriter == [code |-> 0, headerWritten |-> FALSE, rw |-> NoInst]

\* WriteHeader with the store of the code left out.
WriteHeaderNoRecord(l, code) == [l EXCEPT !.headerWritten = TRUE]

\* WriteHeader with the flag tested as found: only the first status of a
\* response is forwarded and stored.
WriteHeaderOnce(l, code) ==
    IF ~l.headerWritten
    THEN [l EXCEPT !.code = code, !.headerWritten = TRUE]
    ELSE l

\* (l *logWriter) WriteHeader: the flag is cleared and then tested, so the
\* branch is always taken: the call is forwarded and the code stored.
WriteHeader(l, code) ==
    LET l1 == [l EXCEPT !.headerWritten = FALSE]
    IN  IF ~l1.headerWritten
        THEN [l1 EXCEPT !.code = code, !.headerWritten = TRUE]
        ELSE l1

\* (l *logWriter) Write: marks the header written; the code is untouched.
Write(l) == [l EXCEPT !.headerWritten = TRUE]

\* (l *logWriter) Code.
Code(l) == l.code

\* WriteHeader's test of the flag as it looks meant: no second forward.
WriteHeaderForwardsOnce(l) == ~l.headerWritten

\* Whether (l *logWriter) WriteHeader reaches line 189 and forwards the call
\* to l.ResponseWriter: the test of line 188 on the flag line 187 cleared.
WriteHeaderForwards(l) ==
    LET l1 == [l EXCEPT !.headerWritten = FALSE]
    IN  ~l1.headerWritten

\* The underlying response writer of net/http, as the recorder sees it:
\* the status it has sent (0: none yet), the WriteHeader and Write calls it
\* received, and (history) the requests whose handlers they came from.
NewSink == [status |-> 0, headers |-> 0, writes |-> 0, from |-> {}]

\* l.ResponseWriter.WriteHeader(code), line 189: the sink sends the first
\* status it is given and keeps it.
SinkWriteHeader(s, code) ==
    [s EXCEPT !.headers = @ + 1, !.status = IF @ = 0 THEN code ELSE @]

\* l.ResponseWriter.Write(buf), line 197: body bytes before any status
\* make the sink send 200.
SinkWrite(s) ==
    [s EXCEPT !.writes = @ + 1, !.status = IF @ = 0 THEN StatusOK ELSE @]

----------------------------------------------------------------------------
\* The log maps, main.go:75-105 and 146-161.

\* An interface{} value holding an integer / a string.
IntVal(n) == <<"int", n>>
StrVal(s) == <<"str", s>>

\* make(map[string]interface{})
EmptyMap == [k \in {} |-> StrVal("")]

\* data[key] = value
MapSet(m, key, value) == (key :> value) @@ m

\* The id of the next map request i allocates.
NextMap(i) == <<i, nAlloc[i] + 1>>

\* logDataGet(r): the map under "log" in r's context when there is one,
\* else a map made on the spot, which nothing but the caller refers to.
\* c is ctx.Value("log"), id the address make() would return.
logDataGet(h, c, id) ==
    IF c # NoMap
    THEN [heap |-> h, data |-> c, made |-> 0]
    ELSE [heap |-> (id :> EmptyMap) @@ h, data |-> id, made |-> 1]

\* logDataAdd(r, key, value): stores into the context's map, or into a new
\* one; line 99 assigns the derived request to the parameter r, a local of
\* logDataAdd, so `ctx` is the context of that local and the caller's request
\* keeps the context it had.
logDataAdd(h, c, id, key, value) ==
    LET data == IF c # NoMap THEN c ELSE id
        h1   == IF c # NoMap THEN h ELSE (id :> EmptyMap) @@ h
    IN  [heap      |-> [h1 EXCEPT ![data] = MapSet(@, key, value)],
         callerCtx |-> c,
         made      |-> IF c # NoMap THEN 0 ELSE 1]

\* logDataReplace(r, data): line 104 assigns to the parameter r only; the
\* result is what the caller's request holds under "log" afterwards.
logDataReplace(c, data) == c

\* The keys the program's maps hold, in the order json.Marshal writes the
\* keys of a map (sorted).
KeyOrder ==
    <<"code", "content_length", "error", "event", "message", "method",
      "remote_addr", "request_id", "request_time", "tts_ns", "url", "user">>

\* logAsString(l): json.Marshal(l), the object's members as key/value pairs
\* in key order.  Every value the program stores in a map it prints is a
\* string or an integer, which Marshal encodes, so err is nil.
logAsString(l) ==
    LET present == SelectSeq(KeyOrder, LAMBDA k : k \in DOMAIN l)
    IN  [n \in 1..Len(present) |-> <<present[n], l[present[n]]>>]

\* The keys of a printed line, and the value it gives a key.
LineKeys(line) == {line[n][1] : n \in 1..Len(line)}
LineGet(line, key) == line[CHOOSE n \in 1..Len(line) : line[n][1] = key][2]

\* log.Println(line) on the goroutine of request i.
Println(lg, line) == Append(lg, line)

\* logEvent(r, event, msg): the map of r's context, or a new one, gets the
\* event and the message and is printed.  lg is the goroutine's output.
logEvent(h, c, id, lg, event, msg) ==
    LET got == logDataGet(h, c, id)
        m   == MapSet(MapSet(got.heap[got.data], "event", StrVal(event)),
                      "message", StrVal(msg))
    IN  [heap   |-> [got.heap EXCEPT ![got.data] = m],
         logged |-> Println(lg, logAsString(m)),
         made   |-> got.made]

\* r.Context().Value("log") of the request net/http hands to mwPanic: the
\* server's base context carries no "log" value.
ServerCtx(i) == NoMap

----------------------------------------------------------------------------
\* sync.Pool `writers`, main.go:217.

\* What Put leaves in the pool.
PoolPut(p, x) == p \cup {x}

\* Get that hands out an instance and leaves it in the pool.
PoolTakeKept(p, x) == p

\* What Get leaves in the pool when it hands out x.
PoolTake(p, x) == p \ {x}

\* The reset with the writer left as the last holder set it.
ResetKeepWriter(l, w) == [l EXCEPT !.code = StatusOK, !.headerWritten = FALSE]

\* The reset with only the writer set: code and flag stay as they were.
ResetWriterOnly(l, w) == [l EXCEPT !.rw = w]

\* mwLog line 133-134 and 132: the reset of a recorder just acquired, w the
\* ResponseWriter of the request.
Reset(l, w) == [l EXCEPT !.rw = w, !.code = StatusOK, !.headerWritten = FALSE]

\* Line 135 left out: the recorder is never put back.
DeferPutForgotten(d, p, x) == [deferred |-> d, pool |-> p]

\* Line 135 without `defer`: the recorder is put back before the handler runs.
PutAtOnce(d, p, x) == [deferred |-> d, pool |-> PoolPut(p, x)]

\* mwLog line 135, `defer writers.Put(lw)`: the call is pushed on the
\* goroutine's deferred stack and the pool is left alone until the function
\* exits.
DeferPut(d, p, x) == [deferred |-> Append(d, "put"), pool |-> p]

\* recover() in mwPanic's deferred function, for the panic value v in
\* flight ("none": no panic).  panic(nil) makes recover() return nil
\* (GODEBUG panicnil=1, the behaviour of every toolchain for a module that
\* does not declare go >= 1.21) or a *runtime.PanicNilError.
Recover(v) ==
    CASE v = "none" -> {"nil"}
      [] v = "nil"  -> {"nil", "PanicNilError"}
      [] OTHER      -> {v}

\* Where a goroutine stands once a deferred call has run: more deferred
\* calls, or the end of the outermost handler, with the panic (if it is
\* still in flight) leaving mwPanic.
AfterDeferred(rest, pv) ==
    IF rest # <<>> THEN "unwind"
    ELSE IF pv = "none" THEN "done" ELSE "crashed"

----------------------------------------------------------------------------
\* The bounds of a run.

\* The calls request i's handler has made, its panic not counted.
HandlerCalls(i) == Len(SelectSeq(calls[i], LAMBDA c : c.op # "panic"))

RECURSIVE CallsUpTo(_)
CallsUpTo(n) == IF n = 0 THEN 0 ELSE CallsUpTo(n - 1) + HandlerCalls(n)

\* The handlers of the run may make another call / another handler may panic.
MayCall == CallsUpTo(NumReqs) < MaxOps
MayPanic ==
    Cardinality({j \in Reqs : \E n \in 1..Len(calls[j]) :
                                  calls[j][n].op = "panic"}) < MaxPanics

\* The requests being served.
InFlight == {j \in Reqs : pc[j] \notin {"idle", "done", "crashed"}}

\* The server before its first request.
ServerInit ==
    /\ ranOnce = FALSE
    /\ writersNew = FALSE
    /\ pool = {}
    /\ insts = [x \in Reqs |-> NewLogWriter]
    /\ allocated = {}
    /\ pc = [i \in Reqs |-> "idle"]
    /\ lw = [i \in Reqs |-> NoInst]
    /\ deferred = [i \in Reqs |-> <<>>]
    /\ panicking = [i \in Reqs |-> "none"]
    /\ heap = [id \in {} |-> EmptyMap]
    /\ nAlloc = [i \in Reqs |-> 0]
    /\ logData = [i \in Reqs |-> NoMap]
    /\ reqCtx = [i \in Reqs |-> ServerCtx(i)]
    /\ logged = [i \in Reqs |-> <<>>]
    /\ calls = [i \in Reqs |-> <<>>]
    /\ puts = [i \in Reqs |-> 0]
    /\ usedAfterPut = [i \in Reqs |-> FALSE]
    /\ initCount = 0
    /\ sinks = [i \in Reqs |-> NewSink]

\* The optional interfaces of net/http a ResponseWriter may implement.
Caps == {"Flush", "Hijack", "CloseNotify"}

\* A recorder nothing has been done with.
IdleRec ==
    [l |-> NewLogWriter, sink |-> NewSink, caps |-> {}, forwarded |-> <<>>,
     calls |-> <<>>, panicked |-> FALSE]

IdleCall == [pc |-> "idle"]

IdleAuth == [pc |-> "idle"]

Init ==
    /\ ServerInit
    /\ unit = IdleRec
    /\ lcall = IdleCall
    /\ auth = IdleAuth

\* mwPanic lines 65-71 and mwLog lines 110-119: the recovery function is
\* deferred, the log map obtained and seeded.  Requests are numbered in the
\* order they arrive.
Serve(i) ==
    /\ pc[i] = "idle"
    /\ UNCHANGED <<sinks, unitVars>>
    /\ \A j \in Reqs : j < i => pc[j] # "idle"
    /\ Cardinality(InFlight) < MaxInFlight
    /\ LET got    == logDataGet(heap, reqCtx[i], NextMap(i))
           m0     == got.heap[got.data]
           m1     == MapSet(m0, "request_time", IntVal(0))
           m2     == MapSet(m1, "request_id", StrVal("id"))
           m3     == MapSet(m2, "event", StrVal("request"))
           m4     == MapSet(m3, "remote_addr", StrVal("addr"))
           m5     == MapSet(m4, "method", StrVal("GET"))
           m6     == MapSet(m5, "url", StrVal("/"))
           m7     == MapSet(m6, "content_length", IntVal(0))
       IN  /\ heap' = [got.heap EXCEPT ![got.data] = m7]
           /\ nAlloc' = [nAlloc EXCEPT ![i] = @ + got.made]
           /\ logData' = [logData EXCEPT ![i] = got.data]
    /\ deferred' = [deferred EXCEPT ![i] = <<"recover">>]
    /\ pc' = [pc EXCEPT ![i] = "checkOnce"]
    /\ UNCHANGED <<ranOnce, writersNew, pool, insts, allocated, lw, panicking,
                   reqCtx, logged, calls, puts, usedAfterPut, initCount>>

\* mwLog line 125: the unsynchronised read of ranOnce.
CheckOnce(i) ==
    /\ pc[i] = "checkOnce"
    /\ UNCHANGED <<sinks, unitVars>>
    /\ pc' = [pc EXCEPT ![i] = IF ~ranOnce THEN "setOnce" ELSE "get"]
    /\ UNCHANGED <<ranOnce, writersNew, pool, insts, allocated, lw, deferred,
                   panicking, heap, nAlloc, logData, reqCtx, logged, calls,
                   puts, usedAfterPut, initCount>>

\* mwLog line 126.
SetOnce(i) ==
    /\ pc[i] = "setOnce"
    /\ UNCHANGED <<sinks, unitVars>>
    /\ ranOnce' = TRUE
    /\ pc' = [pc EXCEPT ![i] = "setNew"]
    /\ UNCHANGED <<writersNew, pool, insts, allocated, lw, deferred, panicking,
                   heap, nAlloc, logData, reqCtx, logged, calls, puts,
                   usedAfterPut, initCount>>

\* mwLog lines 127-129: writers.New is assigned.
SetNew(i) ==
    /\ pc[i] = "setNew"
    /\ UNCHANGED <<sinks, unitVars>>
    /\ writersNew' = TRUE
    /\ initCount' = initCount + 1
    /\ pc' = [pc EXCEPT ![i] = "get"]
    /\ UNCHANGED <<ranOnce, pool, insts, allocated, lw, deferred, panicking,
                   heap, nAlloc, logData, reqCtx, logged, calls, puts,
                   usedAfterPut>>

\* mwLog lines 131-135 with the recorder x that writers.Get returned, l its
\* state on return from Get.
Acquire(i, x, l) ==
    LET dp == DeferPut(deferred[i], PoolTake(pool, x), x)
    IN  /\ insts' = [insts EXCEPT ![x] = Reset(l, i)]
        /\ allocated' = allocated \cup {x}
        /\ lw' = [lw EXCEPT ![i] = x]
        /\ deferred' = [deferred EXCEPT ![i] = dp.deferred]
        /\ pool' = dp.pool
        /\ pc' = [pc EXCEPT ![i] = "handler"]
        /\ UNCHANGED <<sinks, unitVars>>
        /\ UNCHANGED <<ranOnce, writersNew, panicking, heap, nAlloc, logData,
                       reqCtx, logged, calls, puts, usedAfterPut, initCount>>

\* writers.Get() hands out an instance an earlier request put back, in the
\* state that request left it in.
GetPooled(i) ==
    /\ pc[i] = "get"
    /\ \E x \in pool : Acquire(i, x, insts[x])

\* writers.Get() finds no instance it can take (the pool is empty, or what
\* it holds sits in another P's private slot or was dropped by the garbage
\* collector) and calls writers.New.
GetNew(i) ==
    /\ pc[i] = "get"
    /\ writersNew
    /\ i \notin allocated
    /\ Acquire(i, i, NewLogWriter)

\* writers.Get() finds no instance and writers.New is still nil: Get
\* returns nil and the type assertion of line 131 panics.
GetNil(i) ==
    /\ pc[i] = "get"
    /\ UNCHANGED <<sinks, unitVars>>
    /\ ~writersNew
    /\ panicking' = [panicking EXCEPT ![i] = "err"]
    /\ pc' = [pc EXCEPT ![i] = "unwind"]
    /\ UNCHANGED <<ranOnce, writersNew, pool, insts, allocated, lw, deferred,
                   heap, nAlloc, logData, reqCtx, logged, calls, puts,
                   usedAfterPut, initCount>>

\* One call of the wrapped handler, as the history records it.
Call(op, code, key) == [op |-> op, code |-> code, key |-> key]

\* The recorder is touched by request i: remember when that is after its Put.
Touch(i) == [usedAfterPut EXCEPT ![i] = @ \/ puts[i] > 0]

\* The sinks after request i's handler had a call forwarded to the writer w
\* of its recorder: op is the method called, code its argument.
Forward(snk, w, i, op, code) ==
    IF w \in DOMAIN snk
    THEN [snk EXCEPT ![w] =
             [(IF op = "WriteHeader" THEN SinkWriteHeader(@, code)
                                     ELSE SinkWrite(@))
                 EXCEPT !.from = @ \cup {i}]]
    ELSE snk

\* The wrapped handler (line 137) calls w.WriteHeader(c) on the recorder.
HWriteHeader(i, c) ==
    /\ pc[i] = "handler"
    /\ MayCall
    /\ insts' = [insts EXCEPT ![lw[i]] = WriteHeader(@, c)]
    /\ sinks' = IF WriteHeaderForwards(insts[lw[i]])
                THEN Forward(sinks, insts[lw[i]].rw, i, "WriteHeader", c)
                ELSE sinks
    /\ UNCHANGED unitVars
    /\ calls' = [calls EXCEPT ![i] = Append(@, Call("WriteHeader", c, ""))]
    /\ usedAfterPut' = Touch(i)
    /\ UNCHANGED <<ranOnce, writersNew, pool, allocated, pc, lw, deferred,
                   panicking, heap, nAlloc, logData, reqCtx, logged, puts,
                   initCount>>

\* The wrapped handler calls w.Write(buf) on the recorder.
HWrite(i) ==
    /\ pc[i] = "handler"
    /\ MayCall
    /\ insts' = [insts EXCEPT ![lw[i]] = Write(@)]
    /\ sinks' = Forward(sinks, insts[lw[i]].rw, i, "Write", 0)
    /\ UNCHANGED unitVars
    /\ calls' = [calls EXCEPT ![i] = Append(@, Call("Write", 0, ""))]
    /\ usedAfterPut' = Touch(i)
    /\ UNCHANGED <<ranOnce, writersNew, pool, allocated, pc, lw, deferred,
                   panicking, heap, nAlloc, logData, reqCtx, logged, puts,
                   initCount>>

\* The wrapped handler calls logDataAdd(r, k, "bob") on the request it got.
HLogDataAdd(i, k) ==
    /\ pc[i] = "handler"
    /\ UNCHANGED <<sinks, unitVars>>
    /\ MayCall
    /\ LET res == logDataAdd(heap, reqCtx[i], NextMap(i), k, StrVal("bob"))
       IN  /\ heap' = res.heap
           /\ reqCtx' = [reqCtx EXCEPT ![i] = res.callerCtx]
           /\ nAlloc' = [nAlloc EXCEPT ![i] = @ + res.made]
    /\ calls' = [calls EXCEPT ![i] = Append(@, Call("logDataAdd", 0, k))]
    /\ UNCHANGED <<ranOnce, writersNew, pool, insts, allocated, pc, lw,
                   deferred, panicking, logData, logged, puts, usedAfterPut,
                   initCount>>

\* The wrapped handler gets the log data, stores k in it and hands it to
\* logDataReplace(r, data).
HLogDataReplace(i, k) ==
    /\ pc[i] = "handler"
    /\ UNCHANGED <<sinks, unitVars>>
    /\ MayCall
    /\ LET got == logDataGet(heap, reqCtx[i], NextMap(i))
       IN  /\ heap' = [got.heap EXCEPT
                          ![got.data] = MapSet(@, k, StrVal("bob"))]
           /\ reqCtx' = [reqCtx EXCEPT
                            ![i] = logDataReplace(reqCtx[i], got.data)]
           /\ nAlloc' = [nAlloc EXCEPT ![i] = @ + got.made]
    /\ calls' = [calls EXCEPT ![i] = Append(@, Call("logDataReplace", 0, k))]
    /\ UNCHANGED <<ranOnce, writersNew, pool, insts, allocated, pc, lw,
                   deferred, panicking, logData, logged, puts, usedAfterPut,
                   initCount>>

\* The wrapped handler panics with the value v.
HPanic(i, v) ==
    /\ pc[i] = "handler"
    /\ UNCHANGED <<sinks, unitVars>>
    /\ MayPanic
    /\ panicking' = [panicking EXCEPT ![i] = v]
    /\ calls' = [calls EXCEPT ![i] = Append(@, Call("panic", 0, v))]
    /\ pc' = [pc EXCEPT ![i] = "unwind"]
    /\ UNCHANGED <<ranOnce, writersNew, pool, insts, allocated, lw, deferred,
                   heap, nAlloc, logData, reqCtx, logged, puts, usedAfterPut,
                   initCount>>

\* The wrapped handler returns to mwLog.
HReturn(i) ==
    /\ pc[i] = "handler"
    /\ UNCHANGED <<sinks, unitVars>>
    /\ pc' = [pc EXCEPT ![i] = "log"]
    /\ UNCHANGED <<ranOnce, writersNew, pool, insts, allocated, lw, deferred,
                   panicking, heap, nAlloc, logData, reqCtx, logged, calls,
                   puts, usedAfterPut, initCount>>

\* mwLog lines 139-142: the code is read from the recorder, code and tts_ns
\* are stored and the map is printed; the function then returns.
LogRequest(i) ==
    /\ pc[i] = "log"
    /\ UNCHANGED <<sinks, unitVars>>
    /\ LET m == MapSet(MapSet(heap[logData[i]],
                              "code", IntVal(Code(insts[lw[i]]))),
                       "tts_ns", IntVal(0))
       IN  /\ heap' = [heap EXCEPT ![logData[i]] = m]
           /\ logged' = [logged EXCEPT ![i] = Println(@, logAsString(m))]
    /\ usedAfterPut' = Touch(i)
    /\ pc' = [pc EXCEPT ![i] = "unwind"]
    /\ UNCHANGED <<ranOnce, writersNew, pool, insts, allocated, lw, deferred,
                   panicking, nAlloc, logData, reqCtx, calls, puts, initCount>>

\* The deferred writers.Put(lw) of line 135 runs, on return or on a panic.
RunPut(i) ==
    /\ pc[i] = "unwind"
    /\ UNCHANGED <<sinks, unitVars>>
    /\ deferred[i] # <<>>
    /\ deferred[i][Len(deferred[i])] = "put"
    /\ pool' = PoolPut(pool, lw[i])
    /\ puts' = [puts EXCEPT ![i] = @ + 1]
    /\ deferred' = [deferred EXCEPT ![i] = SubSeq(@, 1, Len(@) - 1)]
    /\ pc' = [pc EXCEPT ![i] = AfterDeferred(deferred'[i], panicking[i])]
    /\ UNCHANGED <<ranOnce, writersNew, insts, allocated, lw, panicking, heap,
                   nAlloc, logData, reqCtx, logged, calls, usedAfterPut,
                   initCount>>

\* mwPanic's deferred function, lines 66-70: recover() ends the panic and,
\* when it returned a value, logEvent prints the "panic" event.
RunRecover(i) ==
    /\ pc[i] = "unwind"
    /\ UNCHANGED <<sinks, unitVars>>
    /\ deferred[i] # <<>>
    /\ deferred[i][Len(deferred[i])] = "recover"
    /\ \E rec \in Recover(panicking[i]) :
          IF rec # "nil"
          THEN LET ev == logEvent(heap, reqCtx[i], NextMap(i), logged[i],
                                  "panic", rec)
               IN  /\ heap' = ev.heap
                   /\ logged' = [logged EXCEPT ![i] = ev.logged]
                   /\ nAlloc' = [nAlloc EXCEPT ![i] = @ + ev.made]
          ELSE UNCHANGED <<heap, logged, nAlloc>>
    /\ panicking' = [panicking EXCEPT ![i] = "none"]
    /\ deferred' = [deferred EXCEPT ![i] = SubSeq(@, 1, Len(@) - 1)]
    /\ pc' = [pc EXCEPT ![i] = AfterDeferred(deferred'[i], panicking'[i])]
    /\ UNCHANGED <<ranOnce, writersNew, pool, insts, allocated, lw, logData,
                   reqCtx, calls, puts, usedAfterPut, initCount>>

Next ==
    \/ \E i \in Reqs : Serve(i)
    \/ \E i \in Reqs : CheckOnce(i)
    \/ \E i \in Reqs : SetOnce(i)
    \/ \E i \in Reqs : SetNew(i)
    \/ \E i \in Reqs : GetPooled(i)
    \/ \E i \in Reqs : GetNew(i)
    \/ \E i \in Reqs : GetNil(i)
    \/ \E i \in Reqs, c \in Codes : HWriteHeader(i, c)
    \/ \E i \in Reqs : HWrite(i)
    \/ \E i \in Reqs, k \in HandlerKeys : HLogDataAdd(i, k)
    \/ \E i \in Reqs, k \in HandlerKeys : HLogDataReplace(i, k)
    \/ \E i \in Reqs, v \in PanicVals : HPanic(i, v)
    \/ \E i \in Reqs : HReturn(i)
    \/ \E i \in Reqs : LogRequest(i)
    \/ \E i \in Reqs : RunPut(i)
    \/ \E i \in Reqs : RunRecover(i)

Spec == Init /\ [][Next]_vars

----------------------------------------------------------------------------
\* Vocabulary of the properties.

\* The request has left mwPanic.
Ended(i) == pc[i] \in {"done", "crashed"}

\* The wrapped handler was invoked and panicked / returned.
HandlerPanicked(i) ==
    calls[i] # <<>> /\ calls[i][Len(calls[i])].op = "panic"
HandlerReturned(i) ==
    /\ lw[i] # NoInst
    /\ pc[i] \in {"log", "unwind", "done", "crashed"}
    /\ ~HandlerPanicked(i)

\* The codes the handler passed to WriteHeader, in call order.
StatusCalls(i) == SelectSeq(calls[i], LAMBDA c : c.op = "WriteHeader")

\* The keys the handler added to the request's log data.
AddedKeys(i) ==
    {calls[i][n].key : n \in {m \in 1..Len(calls[i]) :
                              calls[i][m].op \in {"logDataAdd", "logDataReplace"}}}

\* The event of a printed line.
EventOf(line) == LineGet(line, "event")

\* Request i holds a recorder: acquired and not yet put back.
Holds(i) == lw[i] # NoInst /\ puts[i] = 0

----------------------------------------------------------------------------
\* C1: every request that has left mwPanic, whether its handler returned or
\* panicked, has had exactly one structured record printed for it, and no
\* request ever has more than one.
ExactlyOneRecordPerRequest ==
    \A i \in Reqs :
        /\ Len(logged[i]) <= 1
        /\ Ended(i) => Len(logged[i]) = 1

PanicLoggedOnceAndContained ==
    \A i \in Reqs :
        /\ pc[i] # "crashed"
        /\ Ended(i) /\ HandlerPanicked(i) =>
              /\ Len(logged[i]) = 1
              /\ EventOf(logged[i][1]) = StrVal("panic")
        /\ Ended(i) /\ HandlerReturned(i) =>
              /\ Len(logged[i]) = 1
              /\ EventOf(logged[i][1]) = StrVal("request")

\* C4: when the handler returned, the code of the "request" line is 200 if
\* the handler never called WriteHeader and c if it called WriteHeader(c)
\* once, body writes before or after making no difference.
CodeFieldMatchesHandlerStatus ==
    \A i \in Reqs :
        (HandlerReturned(i) /\ logged[i] # <<>>) =>
            LET line == logged[i][1]
                sc   == StatusCalls(i)
            IN  /\ EventOf(line) = StrVal("request")
                /\ Len(sc) = 0 => LineGet(line, "code") = IntVal(StatusOK)
                /\ Len(sc) = 1 => LineGet(line, "code") = IntVal(sc[1].code)

\* A handler called WriteHeader(404) and then Write, returned, and the line
\* printed for it says 404.
CodeFieldWitness ==
    \E i \in Reqs :
        /\ pc[i] = "done"
        /\ calls[i] = <<Call("WriteHeader", 404, ""), Call("Write", 0, "")>>
        /\ Len(logged[i]) = 1
        /\ "code" \in LineKeys(logged[i][1])
        /\ LineGet(logged[i][1], "code") = IntVal(404)

\* C5: when the wrapped handler is invoked the recorder it is given reports
\* 200 and no header written, and it still reports 200 when a handler that
\* set no status has returned, whatever an earlier holder left in the
\* instance.
RecorderFreshAtHandlerEntry ==
    \A i \in Reqs :
        /\ (pc[i] = "handler" /\ calls[i] = <<>>) =>
              /\ Code(insts[lw[i]]) = StatusOK
              /\ ~insts[lw[i]].headerWritten
              /\ insts[lw[i]].rw = i
        /\ (pc[i] = "log" /\ StatusCalls(i) = <<>>) =>
              Code(insts[lw[i]]) = StatusOK

\* A request is invoked with the instance an ended request had recorded 404
\* in and put back.
RecorderReuseWitness ==
    \E i, j \in Reqs :
        /\ i # j
        /\ pc[j] = "done"
        /\ Len(logged[j]) = 1
        /\ "code" \in LineKeys(logged[j][1])
        /\ LineGet(logged[j][1], "code") = IntVal(404)
        /\ lw[i] = lw[j]
        /\ pc[i] = "handler"
        /\ calls[i] = <<>>
        /\ Code(insts[lw[i]]) = StatusOK

\* C6: two requests never hold the same recorder at the same time, and the
\* log maps of two requests are different maps.
ExclusiveOwnership ==
    \A i, j \in Reqs :
        i # j =>
            /\ (Holds(i) /\ Holds(j)) => lw[i] # lw[j]
            /\ (logData[i] # NoMap /\ logData[j] # NoMap) =>
                  logData[i] # logData[j]

\* Two handlers run at the same time, one on the recorder an ended request
\* put back, the other on a recorder of its own.
ConcurrentHoldersWitness ==
    \E i, j, k \in Reqs :
        /\ i # j /\ i # k /\ j # k
        /\ pc[k] = "done" /\ puts[k] = 1
        /\ pc[i] = "handler" /\ pc[j] = "handler"
        /\ Holds(i) /\ Holds(j)
        /\ lw[i] = lw[k]
        /\ lw[i] # lw[j]
        /\ logData[i] # logData[j]

\* C7: a request puts the recorder it acquired back exactly once, at the
\* end of mwLog, on return and on a panic alike; it never puts twice, and it
\* has not ended with the recorder still out.
RecorderReleasedExactlyOnce ==
    \A i \in Reqs :
        /\ puts[i] <= 1
        /\ puts[i] = 1 => (lw[i] # NoInst /\ pc[i] \in {"unwind", "done", "crashed"})
        /\ (Ended(i) /\ lw[i] # NoInst) => puts[i] = 1

\* A request whose handler panicked has ended and has put its recorder back.
ReleasedAfterPanicWitness ==
    \E i \in Reqs :
        /\ pc[i] = "done"
        /\ HandlerPanicked(i)
        /\ lw[i] # NoInst
        /\ puts[i] = 1

\* C8: the body of `if !ranOnce` is executed at most once in the life of
\* the process.
PoolInitialisedOnce == initCount <= 1

\* C9: a request does not touch its recorder after putting it back: while
\* the handler runs and until mwLog has read the code, the request has not
\* called Put and the pool does not hold the instance.
NoUseAfterRelease ==
    \A i \in Reqs :
        /\ ~usedAfterPut[i]
        /\ pc[i] \in {"handler", "log"} => (puts[i] = 0 /\ lw[i] \notin pool)

\* A request wrote through its recorder, had its code read for the line and
\* then put the recorder back.
ReleaseAfterLastUseWitness ==
    \E i \in Reqs :
        /\ pc[i] = "done"
        /\ \E n \in 1..Len(calls[i]) : calls[i][n].op = "Write"
        /\ Len(logged[i]) = 1
        /\ EventOf(logged[i][1]) = StrVal("request")
        /\ puts[i] = 1
        /\ ~usedAfterPut[i]

\* C10: the "request" line of a request holds every key its handler added
\* with logDataAdd or logDataReplace.
HandlerFieldsReachLogLine ==
    \A i \in Reqs :
        (HandlerReturned(i) /\ logged[i] # <<>>) =>
            AddedKeys(i) \subseteq LineKeys(logged[i][1])

\* The number of Write calls request i's handler made.
WriteCalls(i) == Len(SelectSeq(calls[i], LAMBDA c : c.op = "Write"))

\* C19: whenever a request is about to call writers.Get, writers.New is set
\* (or the pool holds an instance), and no request has had Get return nil,
\* that is, has left line 131 by the panic of the type assertion.
GetAlwaysYieldsRecorder ==
    \A i \in Reqs :
        /\ pc[i] = "get" => (writersNew \/ pool # {})
        /\ pc[i] \in {"unwind", "done", "crashed"} => lw[i] # NoInst

\* C20: while request i's handler runs, its recorder's writer is request
\* i's sink; a sink receives calls from its own request's handler only, and
\* receives every WriteHeader and Write that handler made.
ForwardsToOwnSink ==
    \A i \in Reqs :
        /\ pc[i] = "handler" => insts[lw[i]].rw = i
        /\ sinks[i].from \subseteq {i}
        /\ sinks[i].headers = Len(StatusCalls(i))
        /\ sinks[i].writes = WriteCalls(i)

\* A request writes through an instance that an ended request, whose sink
\* got a call of its own, had put back: the write is in the new request's
\* sink and the old sink is as it was.
ForwardAfterReuseWitness ==
    \E i, j \in Reqs :
        /\ i # j
        /\ pc[j] = "done" /\ puts[j] = 1
        /\ sinks[j].headers + sinks[j].writes = 1
        /\ sinks[j].from = {j}
        /\ lw[i] = lw[j]
        /\ pc[i] = "handler"
        /\ sinks[i].writes = 1
        /\ sinks[i].from = {i}

----------------------------------------------------------------------------
\* The recorder on its own, main.go:180-215: one logWriter, reset on one
\* sink, is given any sequence of at most MaxSeq calls.

MaxSeq == 3

\* The states mwLog can find a recorder in when it takes it from the pool.
StaleWriters ==
    [code : {0, StatusOK} \cup Codes, headerWritten : BOOLEAN,
     rw : {NoInst, 1}]

\* The status codes a handler passes to WriteHeader.
AnyCodes == {StatusOK} \cup Codes

\* Hijack, CloseNotify and Flush with a checked assertion: a sink without
\* the interface makes the call return quietly.
CapabilityCallChecked(u, cap) ==
    IF cap \in u.caps
    THEN [u EXCEPT !.forwarded = Append(@, cap)]
    ELSE u

\* (l *logWriter) Hijack, CloseNotify, Flush, lines 205-215: the assertion
\* l.ResponseWriter.(http.Hijacker) has one result, so it panics when the
\* sink does not implement the interface; otherwise the call is forwarded.
CapabilityCall(u, cap) ==
    IF cap \in u.caps
    THEN [u EXCEPT !.forwarded = Append(@, cap)]
    ELSE [u EXCEPT !.panicked = TRUE]

\* mwLog lines 131-134: a recorder from the pool, reset on the sink.
RecInit ==
    /\ ServerInit
    /\ lcall = IdleCall
    /\ auth = IdleAuth
    /\ unit \in {[IdleRec EXCEPT !.l = Reset(l0, 1), !.caps = cs] :
                    l0 \in StaleWriters, cs \in SUBSET Caps}

\* The caller goes on while no call panicked.
MayUse == ~unit.panicked /\ Len(unit.calls) < MaxSeq

\* lw.WriteHeader(c), lines 186-193.
RecWriteHeader(c) ==
    /\ MayUse
    /\ unit' = [unit EXCEPT
                 !.l = WriteHeader(@, c),
                 !.sink = IF WriteHeaderForwards(unit.l)
                          THEN SinkWriteHeader(@, c) ELSE @,
                 !.calls = Append(@, Call("WriteHeader", c, ""))]
    /\ UNCHANGED <<serverVars, lcall, auth>>

\* lw.Write(b), lines 195-198.
RecWrite ==
    /\ MayUse
    /\ unit' = [unit EXCEPT
                 !.l = Write(@),
                 !.sink = SinkWrite(@),
                 !.calls = Append(@, Call("Write", 0, ""))]
    /\ UNCHANGED <<serverVars, lcall, auth>>

\* lw.Hijack(), lw.CloseNotify(), lw.Flush(), lines 205-215.
RecCapability(cap) ==
    /\ MayUse
    /\ unit' = [CapabilityCall(unit, cap) EXCEPT
                 !.calls = Append(@, Call(cap, 0, ""))]
    /\ UNCHANGED <<serverVars, lcall, auth>>

NextRec ==
    \/ \E c \in AnyCodes : RecWriteHeader(c)
    \/ RecWrite
    \/ \E cap \in Caps : RecCapability(cap)

SpecRec == RecInit /\ [][NextRec]_vars

\* The WriteHeader calls / the capability calls made on the recorder.
UnitStatusCalls == SelectSeq(unit.calls, LAMBDA c : c.op = "WriteHeader")
UnitCapCalls == SelectSeq(unit.calls, LAMBDA c : c.op \in Caps)

\* C11: the recorder's Code() is the code of the most recent WriteHeader
\* call since the reset, or 200 when there was none; Write never changes it.
StatusCodeIsLastSetStatus ==
    Code(unit.l) = IF UnitStatusCalls = <<>>
                   THEN StatusOK
                   ELSE UnitStatusCalls[Len(UnitStatusCalls)].code

\* Two different codes were set, then body bytes written.
LastOfTwoStatusesWitness ==
    /\ Len(unit.calls) = 3
    /\ unit.calls[1].op = "WriteHeader" /\ unit.calls[1].code = 404
    /\ unit.calls[2].op = "WriteHeader" /\ unit.calls[2].code = 500
    /\ unit.calls[3].op = "Write"
    /\ Code(unit.l) = 500

\* C12: once the sink has sent a status, the recorder's stored status is
\* that status: the first WriteHeader's code, or 200 when Write came first.
StoredStatusIsSentStatus ==
    unit.sink.status # 0 => Code(unit.l) = unit.sink.status

\* C15: a capability call is forwarded to the sink when the sink implements
\* the interface, and panics at the call when it does not.
CapabilityForwardedOrPanics ==
    LET n == Len(unit.calls)
        supported(c) == c.op \in unit.caps
    IN  /\ unit.forwarded =
              [k \in 1..Len(SelectSeq(UnitCapCalls, supported)) |->
                  SelectSeq(UnitCapCalls, supported)[k].op]
        /\ unit.panicked <=>
              /\ n > 0
              /\ unit.calls[n].op \in Caps \ unit.caps
        /\ \A k \in 1..(n - 1) : unit.calls[k].op \in Caps => supported(unit.calls[k])

\* Flush was forwarded, then Hijack called on a sink without it.
UnsupportedCapabilityWitness ==
    /\ unit.caps = {"Flush", "CloseNotify"}
    /\ Len(unit.calls) = 2
    /\ unit.calls[1].op = "Flush"
    /\ unit.calls[2].op = "Hijack"
    /\ unit.forwarded = <<"Flush">>
    /\ unit.panicked

\* C18: every WriteHeader call on the recorder is forwarded to the sink: n
\* calls make n header writes on the sink, also after a Write.
EverySetStatusForwarded ==
    unit.sink.headers = Len(UnitStatusCalls)

\* Body bytes first, then two statuses: the sink received both.
HeaderWritesAfterWriteWitness ==
    /\ Len(unit.calls) = 3
    /\ unit.calls[1].op = "Write"
    /\ unit.calls[2].op = "WriteHeader"
    /\ unit.calls[3].op = "WriteHeader"
    /\ unit.sink.headers = 2
    /\ unit.sink.writes = 1

----------------------------------------------------------------------------
\* The logging path on its own, main.go:146-174: logAsString is called on
\* any map, also one json.Marshal cannot encode.

\* An interface{} value json.Marshal has no encoding for (a channel, a func).
BadVal == <<"chan", 0>>

\* json.Marshal(l) returns a nil error, line 147.
Encodable(l) == \A k \in DOMAIN l : l[k][1] \in {"int", "str"}

\* The maps logAsString is called on.
LogKeys == {"event", "message", "user"}
LogVals == {StrVal("a"), IntVal(1), BadVal}
LogMaps == UNION {[ks -> LogVals] : ks \in SUBSET LogKeys}

\* logError(nil, ...) on line 149: the request is a nil *http.Request.
NilRequest == "nil"

\* A Context method that tolerates a nil receiver: the background context,
\* which carries no "log" value.
ContextNilSafe(r) == NoMap

\* r.Context() on line 76: the method reads r.ctx, which on a nil r is a nil
\* pointer dereference.
Context(r) == IF r = NilRequest THEN "panic" ELSE NoMap

\* logError lines 166-171 on the map logDataGet made.
ErrorRecord ==
    MapSet(MapSet(MapSet(EmptyMap, "event", StrVal("error")),
                  "message", StrVal("unable to marshal")),
           "error", StrVal("err"))

\* logAsString has been entered on a map.
LogInit ==
    /\ ServerInit
    /\ unit = IdleRec
    /\ auth = IdleAuth
    /\ lcall \in {[pc |-> "marshal", arg |-> m, frames |-> <<m>>,
                   entered |-> 1, printed |-> <<>>, ret |-> <<>>] :
                     m \in LogMaps}

\* Line 147: b, err := json.Marshal(l) in the innermost logAsString.
LogMarshal ==
    /\ lcall.pc = "marshal"
    /\ lcall' = [lcall EXCEPT
                  !.pc = IF Encodable(lcall.frames[Len(lcall.frames)])
                         THEN "ok" ELSE "failed"]
    /\ UNCHANGED <<serverVars, unit, auth>>

\* Lines 148-149 and 165-173: logError(nil, err, msg) calls logDataGet(nil),
\* whose r.Context() panics; nothing on the way recovers.  Past it, the
\* record is built and line 173 enters logAsString on it.
LogFallback ==
    /\ lcall.pc = "failed"
    /\ lcall' = IF Context(NilRequest) = "panic"
                THEN [lcall EXCEPT !.pc = "panicked"]
                ELSE [lcall EXCEPT !.pc = "marshal",
                                   !.frames = Append(@, ErrorRecord),
                                   !.entered = @ + 1]
    /\ UNCHANGED <<serverVars, unit, auth>>

\* Line 151: return string(b).  Returning into logError, line 173 prints the
\* string and logError returns to line 151 of the caller, whose b is nil.
LogReturn ==
    /\ lcall.pc = "ok"
    /\ LET n    == Len(lcall.frames)
           line == logAsString(lcall.frames[n])
       IN  lcall' = IF n = 1
                    THEN [lcall EXCEPT !.pc = "done", !.ret = line]
                    ELSE [lcall EXCEPT !.pc = "done", !.ret = <<>>,
                                       !.frames = SubSeq(@, 1, n - 1),
                                       !.printed = Println(@, line)]
    /\ UNCHANGED <<serverVars, unit, auth>>

NextLog ==
    \/ LogMarshal
    \/ LogFallback
    \/ LogReturn

SpecLog == LogInit /\ [][NextLog]_vars

\* C13: when json.Marshal fails in logAsString, the call ends without a
\* panic and an "error" record describing the failure has been printed.
SerializationFailureLogged ==
    (~Encodable(lcall.arg) /\ lcall.pc \in {"done", "panicked"})
        => /\ lcall.pc = "done"
           /\ \E n \in 1..Len(lcall.printed) :
                 /\ "event" \in LineKeys(lcall.printed[n])
                 /\ LineGet(lcall.printed[n], "event") = StrVal("error")

\* C14: the fallback of a failed Marshal never enters logAsString a second
\* time, and the call of logAsString always comes to an end.
FallbackNeverReenters ==
    /\ lcall.entered <= 1
    /\ Len(lcall.frames) <= 1
    /\ lcall.pc \in {"done", "panicked"} \/ ENABLED NextLog

\* Marshal failed and the fallback ran.
FallbackTakenWitness ==
    /\ ~Encodable(lcall.arg)
    /\ lcall.pc = "panicked"
    /\ lcall.entered = 1

----------------------------------------------------------------------------
\* mwAuth on its own, main.go:57-62: requests pass through the handler
\* mwAuth returns, concurrently, each on its own goroutine.

NumAuth == 2
AuthReqs == 1..NumAuth

\* The URLs of the requests routed to mwAuth.
AuthURLs == {"/auth", "/auth?next=1"}

\* An mwAuth that turns the request away after logging.
mwAuthRejects == <<"log">>

\* The statements of the handler mwAuth returns, lines 59 and 60.
mwAuthBody == <<"log", "call">>

\* No request has arrived.  pos is the statement a request is at (0: not
\* arrived), w and r its arguments, log the output of log.Println, invoked
\* the calls of h.ServeHTTP, inh whether such a call is running.
AuthInit ==
    /\ ServerInit
    /\ unit = IdleRec
    /\ lcall = IdleCall
    /\ auth = [pos     |-> [i \in AuthReqs |-> 0],
               w       |-> [i \in AuthReqs |-> NoInst],
               r       |-> [i \in AuthReqs |-> ""],
               log     |-> <<>>,
               invoked |-> [i \in AuthReqs |-> <<>>],
               inh     |-> [i \in AuthReqs |-> FALSE],
               crashed |-> [i \in AuthReqs |-> FALSE]]

\* The lines log.Println printed for request i.
AuthLines(lg, i) == SelectSeq(lg, LAMBDA e : e.by = i)

\* Request i is at statement st of the body.
AuthAt(i, st) ==
    /\ auth.pos[i] \in 1..Len(mwAuthBody)
    /\ mwAuthBody[auth.pos[i]] = st
    /\ ~auth.inh[i]
    /\ ~auth.crashed[i]

\* net/http calls the handler with the request's own writer and request.
AuthServe(i, u) ==
    /\ auth.pos[i] = 0
    /\ auth' = [auth EXCEPT !.pos[i] = 1, !.w[i] = i, !.r[i] = u]
    /\ UNCHANGED <<serverVars, unit, lcall>>

\* Line 59: log.Println("requires auth", r.URL).
AuthLog(i) ==
    /\ AuthAt(i, "log")
    /\ auth' = [auth EXCEPT
                 !.log = Println(@, [msg |-> "requires auth",
                                     url |-> auth.r[i], by |-> i]),
                 !.pos[i] = @ + 1]
    /\ UNCHANGED <<serverVars, unit, lcall>>

\* Line 60: h.ServeHTTP(w, r) is entered.
AuthCall(i) ==
    /\ AuthAt(i, "call")
    /\ auth' = [auth EXCEPT
                 !.invoked[i] = Append(@, [w |-> auth.w[i], r |-> auth.r[i],
                                           logged |-> Len(AuthLines(auth.log, i))]),
                 !.inh[i] = TRUE]
    /\ UNCHANGED <<serverVars, unit, lcall>>

\* The wrapped handler returns to line 60.
AuthHandlerReturn(i) ==
    /\ auth.inh[i]
    /\ auth' = [auth EXCEPT !.inh[i] = FALSE, !.pos[i] = @ + 1]
    /\ UNCHANGED <<serverVars, unit, lcall>>

\* The wrapped handler panics: mwAuth defers nothing, the panic leaves it.
AuthHandlerPanic(i) ==
    /\ auth.inh[i]
    /\ auth' = [auth EXCEPT !.inh[i] = FALSE, !.crashed[i] = TRUE]
    /\ UNCHANGED <<serverVars, unit, lcall>>

NextAuth ==
    \/ \E i \in AuthReqs : \E u \in AuthURLs : AuthServe(i, u)
    \/ \E i \in AuthReqs : AuthLog(i)
    \/ \E i \in AuthReqs : AuthCall(i)
    \/ \E i \in AuthReqs : AuthHandlerReturn(i)
    \/ \E i \in AuthReqs : AuthHandlerPanic(i)

SpecAuth == AuthInit /\ [][NextAuth]_vars

\* Request i has left the handler mwAuth returned, by return.
AuthReturned(i) == auth.pos[i] > Len(mwAuthBody)

\* C17: every request reaching mwAuth has "requires auth" and its URL logged
\* first, then the wrapped handler called exactly once with the request's own
\* w and r; no request leaves mwAuth without that call.
AuthLogsThenDelegatesOnce ==
    \A i \in AuthReqs :
        /\ Len(auth.invoked[i]) <= 1
        /\ Len(AuthLines(auth.log, i)) <= 1
        /\ \A n \in 1..Len(auth.invoked[i]) :
              /\ auth.invoked[i][n].w = auth.w[i]
              /\ auth.invoked[i][n].r = auth.r[i]
              /\ auth.invoked[i][n].logged = 1
              /\ AuthLines(auth.log, i)[1].url = auth.r[i]
        /\ (AuthReturned(i) \/ auth.crashed[i] \/ auth.inh[i])
              => Len(auth.invoked[i]) = 1

\* Two requests with different URLs went through mwAuth, one returned and
\* one is inside the wrapped handler.
AuthDelegatedWitness ==
    \E i, j \in AuthReqs :
        /\ AuthReturned(i)
        /\ auth.inh[j]
        /\ auth.r[i] # auth.r[j]
        /\ Len(auth.invoked[i]) = 1
        /\ Len(auth.invoked[j]) = 1
        /\ Len(auth.log) = 2

----------------------------------------------------------------------------
\* Progress of a request after its handler, main.go:66-70 and 135-142.

\* The wrapped handler of request i was invoked and has terminated.
HandlerTerminated(i) == HandlerPanicked(i) \/ HandlerReturned(i)

\* The steps of request i's goroutine after its handler: the request line
\* and the deferred calls.  None takes a lock or waits on a channel.
Finish(i) == LogRequest(i) \/ RunPut(i) \/ RunRecover(i)

\* The Go scheduler runs every goroutine that can run.
FairSpec == Spec /\ \A i \in Reqs : WF_vars(Finish(i))

\* Under fair scheduling a request whose handler terminated leaves mwPanic.
TerminatedRequestsFinish ==
    \A i \in Reqs : HandlerTerminated(i) ~> Ended(i)

\* C16: a request whose handler terminated, by return or by panic, never
\* waits on another request: until it has left mwPanic its next step can
\* be taken whatever the other requests do, and once it has left, its log
\* line has been printed.
FinishesAndLogsUnblocked ==
    \A i \in Reqs :
        HandlerTerminated(i) =>
            IF Ended(i) THEN Len(logged[i]) >= 1 ELSE ENABLED Finish(i)

\* The part of C16 about waiting alone.
NeverBlocked ==
    \A i \in Reqs :
        (HandlerTerminated(i) /\ ~Ended(i)) => ENABLED Finish(i)

============================================================================
